---- MODULE Spec2Model ----
(***************************************************************************)
(* The task dependency coordination engine of DevAgent (src/dummy.py).     *)
(*                                                                         *)
(* The agent runs on one asyncio event loop.  A coroutine runs without     *)
(* preemption from one `await` of the notification sink (or of the text    *)
(* generation stream) to the next, so every action below is one such       *)
(* synchronous stretch.  A coroutine that is suspended at an await is a    *)
(* record in `suspended` (handlers) or `running` (executions); a task      *)
(* created by asyncio.create_task that has not had its first step yet is   *)
(* an entry of `created`, which the event loop starts in FIFO order.       *)
(***************************************************************************)
EXTENDS Integers, Sequences, FiniteSets, Bags, TLC

VARIABLES
    pending_tasks,             \* self.pending_tasks: id -> Task
    completed_tasks,           \* self.completed_tasks
    in_progress_tasks,         \* self.in_progress_tasks
    task_queue,                \* self.task_queue (Task references, front first)
    waiting_for_dependencies,  \* self.waiting_for_dependencies: id -> set
    waiting_keys,              \* the keys of that dict, in insertion order
    is_processing_active,      \* self.is_processing_active
    is_plan_complete,          \* self.is_plan_complete
    plan_context,              \* TRUE when self.plan_context is non-empty
    created,                   \* executions created by create_task, not yet started
    running,                   \* executions suspended inside execute_task
    suspended,                 \* handler coroutines suspended at a sink await
    submitted,                 \* id -> number of Task objects submitted so far
    calls,                     \* public API calls the environment may still make
    enqueued,                  \* history: id -> number of appends to task_queue
    paused_queue,              \* history: ids queued at the last pause_processing
    priority,                  \* id -> task.priority of each Task object submitted
    reordered,                 \* history: ids reinserted by handle_priority_change
    shutdown,                  \* the shutdown() coroutine: where it is, time waited
    notified                   \* sink: id -> the last notification sent about the task

vars == <<pending_tasks, completed_tasks, in_progress_tasks, task_queue,
          waiting_for_dependencies, waiting_keys, is_processing_active,
          is_plan_complete, plan_context, created, running, suspended,
          submitted, calls, enqueued, paused_queue, priority, reordered,
          shutdown, notified>>

(***************************************************************************)
(* Bounds of the model.                                                    *)
(***************************************************************************)
\* public API calls in one behaviour of Spec (every operation available)
MaxOps == 3
\* public API calls in one behaviour of SpecArrivals
MaxArrivalOps == 4
\* public API calls in one behaviour of SpecForce
MaxForceOps == 4
\* public API calls in one behaviour of SpecReset
MaxResetOps == 5
\* public API calls in one behaviour of SpecPause
MaxPauseOps == 6
\* public API calls in one behaviour of SpecStop
MaxStopOps == 5
\* public API calls in one behaviour of SpecTags
MaxTagOps == 3
\* public API calls in one behaviour of SpecPriority
MaxPriorityOps == 5
\* public API calls in one behaviour of SpecShutdown
MaxShutdownOps == 4

\* public API calls in one behaviour of SpecSink
MaxSinkOps == 3

\* public API calls in one behaviour of SpecPersist
MaxPersistOps == 3

\* public API calls in one behaviour of SpecNotFound
MaxNotFoundOps == 4

\* public API calls in one behaviour of SpecUpdate
MaxUpdateOps == 4

\* public API calls in one behaviour of SpecContent
MaxContentOps == 3

\* calls of the caller that replaces dependencies and resets tasks
MaxRunOps == 4

\* calls of the caller that starts plans
MaxPlanOps == 3

\* Task objects submitted under one id
MaxSubmit == 1
\* declared dependencies of one task
MaxDeps == 1
\* distinct task priorities
MaxPriority == 3

\* self.max_concurrent_tasks
max_concurrent_tasks == 2

Ids == {"A", "B", "C"}

\* task.agent_type: the tag of this agent's tasks, and one no executor has
AgentTypes == {"dev_agent", "unknown"}

\* task.priority (higher is more urgent)
Priorities == 1 .. MaxPriority

\* the priority of the tasks submitted by HandleTaskFromPm
DefaultPriority == 1

DepChoices == {d \in SUBSET Ids : Cardinality(d) <= MaxDeps}

(***************************************************************************)
(* Task objects.  A Task object is identified by its id and the number of  *)
(* the submission that created it (`ver`); the queue, the executions and   *)
(* the suspended handlers hold references [id, ver] to Task objects.       *)
(***************************************************************************)
NoTask == [known |-> FALSE, ver |-> 0, deps |-> {}, status |-> "NONE",
           agent_type |-> "-"]

NoRef == [id |-> "-", ver |-> 0]

Ref(id, ver) == [id |-> id, ver |-> ver]

\* the shutdown() coroutine before shutdown is called
NotShutDown == [pc |-> "none", waited |-> 0]

StoredRef(pend, id) == Ref(id, pend[id].ver)

QueueIds(queue) == {queue[i].id : i \in DOMAIN queue}

RECURSIVE RemoveId(_, _)
RemoveId(queue, id) ==
    IF queue = <<>> THEN <<>>
    ELSE IF Head(queue).id = id THEN RemoveId(Tail(queue), id)
    ELSE <<Head(queue)>> \o RemoveId(Tail(queue), id)

\* task.dependencies as seen through the reference `task`: the stored
\* object's current value when `task` is the stored object, else the value
\* the (replaced) object was submitted with.
DepsOf(pend, task, deps) ==
    IF pend[task.id].known /\ pend[task.id].ver = task.ver
    THEN pend[task.id].deps ELSE deps

\* task.status = s on the object `task`; `copy` says the write goes to the
\* enhanced copy and not to the object held in the pending table.
WriteStatus(pend, task, copy, s) ==
    IF ~copy /\ pend[task.id].known /\ pend[task.id].ver = task.ver
    THEN [pend EXCEPT ![task.id].status = s] ELSE pend

SetWaiting(w, id, s) == [w EXCEPT ![id] = s]

AddKey(wk, id) ==
    IF \E i \in DOMAIN wk : wk[i] = id THEN wk ELSE Append(wk, id)

(***************************************************************************)
(* Suspended handler coroutines, by what they do when resumed.             *)
(***************************************************************************)
Cont(k, cid, task, deps, pos, n, unb, src) ==
    [k |-> k, cid |-> cid, task |-> task, deps |-> deps, pos |-> pos,
     n |-> n, unb |-> unb, src |-> src]

\* handle_task_from_pm after "task_received": _evaluate_task_readiness(task)
EvalC(task, deps) == Cont("eval", "-", task, deps, 0, 0, <<>>, "-")

\* after a sink await that is followed by _process_ready_tasks()
ProcC == Cont("proc", "-", NoRef, {}, 0, 0, <<>>, "-")

\* _check_unblocked_tasks inside its loop over waiting_for_dependencies
UnblockC(cid, pos, n, unb, src) == Cont("unblock", cid, NoRef, {}, pos, n, unb, src)

\* _check_unblocked_tasks inside _add_to_execution_queue of an unblocked task
AddqC(cid, rest, src) == Cont("addq", cid, NoRef, {}, 0, 0, rest, src)

One(c) == SetToBag({c})

\* An execution inside execute_task: the Task it was started on, whether
\* execute_task runs on an enhanced copy, where it is, and whether writing
\* implementation.py has failed ("failed") or not ("ok"), and what this
\* execution has written to implementation.py: nothing yet ("none"), the
\* generated text ("text"), an empty or blank generated text ("empty"), or
\* the error-annotated text ("error").
Exec(task, copy, pc) ==
    [task |-> task, copy |-> copy, pc |-> pc, persist |-> "ok", artifact |-> "none"]

(***************************************************************************)
(* The reordering of handle_priority_change (src/dummy.py 868-879)         *)
(***************************************************************************)
\* queued_task.priority of the Task object `task`
PriorityOf(prio, task) == prio[task.id][task.ver]

\* self.task_queue.remove(task): the first entry equal to task goes
RECURSIVE RemoveFirst(_, _)
RemoveFirst(queue, task) ==
    IF queue = <<>> THEN <<>>
    ELSE IF Head(queue) = task THEN Tail(queue)
    ELSE <<Head(queue)>> \o RemoveFirst(Tail(queue), task)

\* a reinsertion that always appends at the end of the queue
InsertAtEnd(queue, task, prio) == Append(queue, task)

\* a reinsertion that loses the task
InsertDrops(queue, task, prio) == queue

\* insert before the first queued task of lower priority, else append
RECURSIVE InsertByPriority(_, _, _)
InsertByPriority(queue, task, prio) ==
    IF queue = <<>> THEN <<task>>
    ELSE IF PriorityOf(prio, task) > PriorityOf(prio, Head(queue))
         THEN <<task>> \o queue
         ELSE <<Head(queue)>> \o InsertByPriority(Tail(queue), task, prio)

(***************************************************************************)
(* _process_ready_tasks (src/dummy.py 167-180)                             *)
(***************************************************************************)
RECURSIVE ProcessLoop(_, _, _, _)
ProcessLoop(queue, inprog, active, out) ==
    IF Cardinality(inprog) < max_concurrent_tasks /\ queue # <<>> /\ active
    THEN ProcessLoop(Tail(queue), inprog, active,
                     IF Head(queue).id \notin inprog
                     THEN Append(out, Head(queue)) ELSE out)
    ELSE [queue |-> queue, created |-> out]

ProcessReadyTasks(queue, inprog, active) ==
    IF ~active THEN [queue |-> queue, created |-> <<>>]
    ELSE ProcessLoop(queue, inprog, active, <<>>)

(***************************************************************************)
(* _add_to_execution_queue up to its await (src/dummy.py 150-162)          *)
(***************************************************************************)
\* an enqueue that puts the task at the front of the queue
AddAtFront(queue, task) ==
    IF task.id \notin QueueIds(queue) THEN <<task>> \o queue ELSE queue

\* an enqueue without the guard of line 152
AppendAlways(queue, task) == Append(queue, task)

AddToExecutionQueue(queue, task) ==
    IF task.id \notin QueueIds(queue) THEN Append(queue, task) ELSE queue

(***************************************************************************)
(* _evaluate_task_readiness up to its await (src/dummy.py 121-148)         *)
(***************************************************************************)
\* a readiness check that finds no dependency unmet
UnmetNone(deps, completed) == {}

\* a readiness check with the membership test the wrong way round
UnmetInverted(deps, completed) == {d \in deps : d \in completed}

UnmetDependencies(deps, completed) == {d \in deps : d \notin completed}

EvaluateTaskReadiness(task, deps, queue, completed, w, wk) ==
    IF deps = {} \/ UnmetDependencies(deps, completed) = {}
    THEN [queue  |-> AddToExecutionQueue(queue, task), w |-> w, wk |-> wk,
          queued |-> task.id \notin QueueIds(queue),
          waits  |-> FALSE,
          added  |-> {task.id} \ QueueIds(queue)]
    ELSE [queue  |-> queue,
          w      |-> SetWaiting(w, task.id, UnmetDependencies(deps, completed)),
          wk     |-> AddKey(wk, task.id),
          queued |-> FALSE,
          waits  |-> TRUE,
          added  |-> {}]

(***************************************************************************)
(* _check_unblocked_tasks (src/dummy.py 264-288)                           *)
(***************************************************************************)
\* The for loop over waiting_for_dependencies.items(), from position `pos`
\* to its next await, its end, or the RuntimeError that the dict iterator
\* raises when the dict's size is not the size `n` it had at the start.
RECURSIVE IterWaiting(_, _, _, _, _, _)
IterWaiting(cid, pos, n, w, wk, pend) ==
    IF Len(wk) # n THEN [outcome |-> "error", w |-> w, pos |-> pos, hit |-> NoRef]
    ELSE IF pos > Len(wk) THEN [outcome |-> "end", w |-> w, pos |-> pos, hit |-> NoRef]
    ELSE IF cid \in w[wk[pos]]
         THEN IF w[wk[pos]] = {cid} /\ pend[wk[pos]].known
              THEN [outcome |-> "await", w |-> SetWaiting(w, wk[pos], {}),
                    pos |-> pos + 1, hit |-> StoredRef(pend, wk[pos])]
              ELSE IterWaiting(cid, pos + 1, n,
                               SetWaiting(w, wk[pos], w[wk[pos]] \ {cid}), wk, pend)
         ELSE IterWaiting(cid, pos + 1, n, w, wk, pend)

\* The loop "for task in unblocked_tasks: await _add_to_execution_queue(task)"
\* up to its next await.
RECURSIVE AddUnblocked(_, _)
AddUnblocked(rest, queue) ==
    IF rest = <<>>
    THEN [queue |-> queue, rest |-> <<>>, awaits |-> FALSE, added |-> {}]
    ELSE IF Head(rest).id \in QueueIds(queue) THEN AddUnblocked(Tail(rest), queue)
    ELSE [queue |-> AddToExecutionQueue(queue, Head(rest)), rest |-> Tail(rest),
          awaits |-> TRUE, added |-> {Head(rest).id}]

AfterLoop(cid, unb, src, queue, w) ==
    [queue |-> AddUnblocked(unb, queue).queue, w |-> w,
     conts |-> IF AddUnblocked(unb, queue).awaits
               THEN One(AddqC(cid, AddUnblocked(unb, queue).rest, src))
               ELSE EmptyBag,
     error |-> FALSE, added |-> AddUnblocked(unb, queue).added]

CheckUnblockedTasks(cid, pos, n, unb, src, queue, w, wk, pend) ==
    LET it == IterWaiting(cid, pos, n, w, wk, pend) IN
    CASE it.outcome = "await" ->
            [queue |-> queue, w |-> it.w,
             conts |-> One(UnblockC(cid, it.pos, n, Append(unb, it.hit), src)),
             error |-> FALSE, added |-> {}]
      [] it.outcome = "end" -> AfterLoop(cid, unb, src, queue, it.w)
      [] OTHER -> [queue |-> queue, w |-> it.w, conts |-> EmptyBag, error |-> TRUE,
                   added |-> {}]

(***************************************************************************)
(* DevAgent.__init__ (src/dummy.py 27-45)                                  *)
(***************************************************************************)
Construct(budget) ==
    /\ pending_tasks = [i \in Ids |-> NoTask]
    /\ completed_tasks = {}
    /\ in_progress_tasks = {}
    /\ task_queue = <<>>
    /\ waiting_for_dependencies = [i \in Ids |-> {}]
    /\ waiting_keys = <<>>
    /\ is_processing_active = FALSE
    /\ is_plan_complete = FALSE
    /\ plan_context = FALSE
    /\ created = <<>>
    /\ running = EmptyBag
    /\ suspended = EmptyBag
    /\ submitted = [i \in Ids |-> 0]
    /\ calls = budget
    /\ enqueued = [i \in Ids |-> 0]
    /\ paused_queue = {}
    /\ priority = [i \in Ids |-> <<>>]
    /\ reordered = {}
    /\ shutdown = NotShutDown
    /\ notified = [i \in Ids |-> "none"]

Init == Construct(MaxOps)

Call == calls > 0 /\ calls' = calls - 1

\* history: one more append to task_queue for every id in `added`
Count(added) ==
    enqueued' = [id \in Ids |-> IF id \in added THEN enqueued[id] + 1
                                ELSE enqueued[id]]

\* sink: `kind` is now the last notification sent about every id in `ids`
Notify(n, ids, kind) == [id \in Ids |-> IF id \in ids THEN kind ELSE n[id]]

\* "task_queued" is sent about every task appended to task_queue (154-162)
NotifyQueued(added) == notified' = Notify(notified, added, "task_queued")

\* the notification of _evaluate_task_readiness: "task_queued" (154-162) or
\* "task_waiting" (140-148) about the task evaluated
NotifyEvaluated(r, id) ==
    notified' = IF r.waits THEN Notify(notified, {id}, "task_waiting")
                ELSE Notify(notified, r.added, "task_queued")

(***************************************************************************)
(* The public surface: each action is the handler up to its first await.   *)
(***************************************************************************)
\* handle_plan_start (src/dummy.py 47-75)
HandlePlanStart ==
    /\ Call
    /\ pending_tasks' = [i \in Ids |-> NoTask]
    /\ completed_tasks' = {}
    /\ in_progress_tasks' = {}
    /\ task_queue' = <<>>
    /\ waiting_for_dependencies' = [i \in Ids |-> {}]
    /\ waiting_keys' = <<>>
    /\ is_plan_complete' = FALSE
    /\ is_processing_active' = TRUE
    /\ plan_context' = TRUE
    /\ UNCHANGED <<created, running, suspended, submitted,
                   enqueued, paused_queue, priority, reordered, shutdown, notified>>

\* handle_task_from_pm (src/dummy.py 77-97) with a Task whose dependencies,
\* agent_type and priority are the given ones
SubmitTask(id, deps, agent_type, prio) ==
    /\ Call
    /\ submitted[id] < MaxSubmit
    /\ submitted' = [submitted EXCEPT ![id] = @ + 1]
    /\ priority' = [priority EXCEPT ![id] = Append(@, prio)]
    /\ pending_tasks' = [pending_tasks EXCEPT ![id] =
            [known |-> TRUE, ver |-> submitted[id] + 1, deps |-> deps,
             status |-> "PENDING", agent_type |-> agent_type]]
    /\ waiting_for_dependencies' =
            IF deps # {} THEN SetWaiting(waiting_for_dependencies, id, deps)
            ELSE waiting_for_dependencies
    /\ waiting_keys' = IF deps # {} THEN AddKey(waiting_keys, id) ELSE waiting_keys
    /\ suspended' = suspended (+) One(EvalC(Ref(id, submitted[id] + 1), deps))
    /\ UNCHANGED <<completed_tasks, in_progress_tasks, task_queue,
                   is_processing_active, is_plan_complete, plan_context,
                   created, running,
                   enqueued, paused_queue, reordered, shutdown, notified>>

\* handle_task_from_pm with a task for this agent, of the default priority
HandleTaskFromPm(id, deps) == SubmitTask(id, deps, "dev_agent", DefaultPriority)

\* handle_plan_complete (src/dummy.py 102-116)
HandlePlanComplete ==
    /\ Call
    /\ is_plan_complete' = TRUE
    /\ suspended' = suspended (+) One(ProcC)
    /\ UNCHANGED <<pending_tasks, completed_tasks, in_progress_tasks, task_queue,
                   waiting_for_dependencies, waiting_keys, is_processing_active,
                   plan_context, created, running, submitted,
                   enqueued, paused_queue, priority, reordered, shutdown, notified>>

\* pause_processing (src/dummy.py 306-314)
PauseProcessing ==
    /\ Call
    /\ is_processing_active' = FALSE
    /\ paused_queue' = QueueIds(task_queue)
    /\ UNCHANGED <<pending_tasks, completed_tasks, in_progress_tasks, task_queue,
                   waiting_for_dependencies, waiting_keys, is_plan_complete,
                   plan_context, created, running, suspended, submitted,
                   enqueued, priority, reordered, shutdown, notified>>

\* resume_processing (src/dummy.py 316-324)
ResumeProcessing ==
    /\ Call
    /\ is_processing_active' = TRUE
    /\ suspended' = suspended (+) One(ProcC)
    /\ UNCHANGED <<pending_tasks, completed_tasks, in_progress_tasks, task_queue,
                   waiting_for_dependencies, waiting_keys, is_plan_complete,
                   plan_context, created, running, submitted,
                   enqueued, paused_queue, priority, reordered, shutdown, notified>>

\* an emergency stop that leaves the ready queue as it is
StopKeepsQueue ==
    /\ Call
    /\ is_processing_active' = FALSE
    /\ UNCHANGED <<pending_tasks, completed_tasks, in_progress_tasks, task_queue,
                   waiting_for_dependencies, waiting_keys, is_plan_complete,
                   plan_context, created, running, suspended, submitted,
                   enqueued, paused_queue, priority, reordered, shutdown, notified>>

\* an emergency stop that also forgets which tasks have completed
StopClearsCompleted ==
    /\ Call
    /\ is_processing_active' = FALSE
    /\ task_queue' = <<>>
    /\ completed_tasks' = {}
    /\ UNCHANGED <<pending_tasks, in_progress_tasks,
                   waiting_for_dependencies, waiting_keys, is_plan_complete,
                   plan_context, created, running, suspended, submitted,
                   enqueued, paused_queue, priority, reordered, shutdown, notified>>

\* handle_emergency_stop (src/dummy.py 892-907)
HandleEmergencyStop ==
    /\ Call
    /\ is_processing_active' = FALSE
    /\ task_queue' = <<>>
    /\ UNCHANGED <<pending_tasks, completed_tasks, in_progress_tasks,
                   waiting_for_dependencies, waiting_keys, is_plan_complete,
                   plan_context, created, running, suspended, submitted,
                   enqueued, paused_queue, priority, reordered, shutdown, notified>>

\* force_complete_task (src/dummy.py 726-747)
ForceCompleteTask(id) ==
    /\ Call
    /\ pending_tasks[id].known
    /\ LET r == CheckUnblockedTasks(id, 1, Len(waiting_keys), <<>>, "force",
                                    RemoveId(task_queue, id),
                                    waiting_for_dependencies, waiting_keys,
                                    pending_tasks)
       IN /\ completed_tasks' = completed_tasks \cup {id}
          /\ in_progress_tasks' = in_progress_tasks \ {id}
          /\ task_queue' = r.queue
          /\ Count(r.added)
          /\ NotifyQueued(r.added)
          /\ waiting_for_dependencies' = r.w
          /\ suspended' = suspended (+) r.conts
    /\ UNCHANGED <<pending_tasks, waiting_keys, is_processing_active,
                   is_plan_complete, plan_context, created, running, submitted,
                   paused_queue, priority, reordered, shutdown>>

\* reset_task_status (src/dummy.py 749-774)
ResetTaskStatus(id) ==
    /\ Call
    /\ completed_tasks' = completed_tasks \ {id}
    /\ in_progress_tasks' = in_progress_tasks \ {id}
    /\ LET r == IF pending_tasks[id].known
                THEN EvaluateTaskReadiness(StoredRef(pending_tasks, id),
                                           pending_tasks[id].deps,
                                           RemoveId(task_queue, id),
                                           completed_tasks \ {id},
                                           waiting_for_dependencies, waiting_keys)
                ELSE [queue |-> RemoveId(task_queue, id),
                      w |-> waiting_for_dependencies, wk |-> waiting_keys,
                      queued |-> FALSE, waits |-> FALSE, added |-> {}]
       IN /\ task_queue' = r.queue
          /\ Count(r.added)
          /\ NotifyEvaluated(r, id)
          /\ waiting_for_dependencies' = r.w
          /\ waiting_keys' = r.wk
          /\ suspended' = IF r.queued THEN suspended (+) One(ProcC) ELSE suspended
    /\ UNCHANGED <<pending_tasks, is_processing_active, is_plan_complete,
                   plan_context, created, running, submitted,
                   paused_queue, priority, reordered, shutdown>>

\* handle_task_update with updates = {"dependencies": deps} (src/dummy.py 829-856)
HandleTaskUpdate(id, deps) ==
    /\ Call
    /\ pending_tasks[id].known
    /\ pending_tasks' = [pending_tasks EXCEPT ![id].deps = deps]
    /\ LET r == EvaluateTaskReadiness(StoredRef(pending_tasks, id), deps,
                                      task_queue, completed_tasks,
                                      waiting_for_dependencies, waiting_keys)
       IN /\ task_queue' = r.queue
          /\ Count(r.added)
          /\ NotifyEvaluated(r, id)
          /\ waiting_for_dependencies' = r.w
          /\ waiting_keys' = r.wk
          /\ suspended' = IF r.queued THEN suspended (+) One(ProcC) ELSE suspended
    /\ UNCHANGED <<completed_tasks, in_progress_tasks, is_processing_active,
                   is_plan_complete, plan_context, created, running, submitted,
                   paused_queue, priority, reordered, shutdown>>

\* handle_priority_change (src/dummy.py 858-890)
HandlePriorityChange(id, new_priority) ==
    /\ Call
    /\ pending_tasks[id].known
    /\ priority' = [priority EXCEPT ![id][pending_tasks[id].ver] = new_priority]
    /\ IF \E i \in DOMAIN task_queue : task_queue[i] = StoredRef(pending_tasks, id)
       THEN /\ task_queue' =
                  InsertByPriority(RemoveFirst(task_queue, StoredRef(pending_tasks, id)),
                                   StoredRef(pending_tasks, id), priority')
            /\ reordered' = reordered \cup {id}
       ELSE UNCHANGED <<task_queue, reordered, shutdown, notified>>
    /\ UNCHANGED <<pending_tasks, completed_tasks, in_progress_tasks,
                   waiting_for_dependencies, waiting_keys, is_processing_active,
                   is_plan_complete, plan_context, created, running, suspended,
                   submitted, enqueued, paused_queue, shutdown, notified>>

\* force_complete_task, handle_task_update or handle_priority_change with an
\* id that is not in pending_tasks: the call returns False at once
\* (src/dummy.py 728 and 747, 831-833, 860-861)
ReturnsNotFound(id) ==
    /\ Call
    /\ ~pending_tasks[id].known
    /\ UNCHANGED <<pending_tasks, completed_tasks, in_progress_tasks, task_queue,
                   waiting_for_dependencies, waiting_keys, is_processing_active,
                   is_plan_complete, plan_context, created, running, suspended,
                   submitted, enqueued, paused_queue, priority, reordered,
                   shutdown, notified>>

\* the value reset_task_status(id) returns (src/dummy.py 761, 773-774)
ResetTaskStatusResult(id) == pending_tasks[id].known

(***************************************************************************)
(* shutdown (src/dummy.py 776-799)                                         *)
(***************************************************************************)
\* timeout = 30  # seconds
timeout == 30

\* the longest that one asyncio.sleep(1) of the poll takes, in seconds
MaxSleep == 2

Min(a, b) == IF a < b THEN a ELSE b

\* a poll that waits for the in-flight set to drain, however long it takes
KeepsWaitingForever(inprog, waited) == inprog # {}

\* the condition of the while loop (line 786)
KeepsWaiting(inprog, waited) == inprog # {} /\ waited < timeout

\* shutdown up to its first await: the sleep of the poll, or the notification
Shutdown ==
    /\ Call
    /\ shutdown.pc = "none"
    /\ is_processing_active' = FALSE
    /\ shutdown' = [pc |-> IF KeepsWaiting(in_progress_tasks, 0)
                           THEN "polling" ELSE "notifying",
                    waited |-> 0]
    /\ UNCHANGED <<pending_tasks, completed_tasks, in_progress_tasks, task_queue,
                   waiting_for_dependencies, waiting_keys, is_plan_complete,
                   plan_context, created, running, suspended, submitted,
                   enqueued, paused_queue, priority, reordered, notified>>

\* asyncio.sleep(1) returns after d seconds and the loop condition is
\* evaluated again (src/dummy.py 786-797)
ShutdownPolls ==
    /\ shutdown.pc = "polling"
    /\ \E d \in 1 .. MaxSleep :
          LET waited == Min(shutdown.waited + d, timeout + MaxSleep)
          IN shutdown' = [pc |-> IF KeepsWaiting(in_progress_tasks, waited)
                                 THEN "polling" ELSE "notifying",
                          waited |-> waited]
    /\ UNCHANGED <<pending_tasks, completed_tasks, in_progress_tasks, task_queue,
                   waiting_for_dependencies, waiting_keys, is_processing_active,
                   is_plan_complete, plan_context, created, running, suspended,
                   submitted, calls, enqueued, paused_queue, priority, reordered,
                   notified>>

\* the "agent_shutdown" notification has been sent: shutdown returns
\* (src/dummy.py 792-799)
ShutdownReturns ==
    /\ shutdown.pc = "notifying"
    /\ shutdown' = [shutdown EXCEPT !.pc = "returned"]
    /\ UNCHANGED <<pending_tasks, completed_tasks, in_progress_tasks, task_queue,
                   waiting_for_dependencies, waiting_keys, is_processing_active,
                   is_plan_complete, plan_context, created, running, suspended,
                   submitted, calls, enqueued, paused_queue, priority, reordered,
                   notified>>

(***************************************************************************)
(* Resumptions of suspended handlers.                                      *)
(***************************************************************************)
\* handle_task_from_pm resumes: _evaluate_task_readiness (src/dummy.py 100, 121-148)
ResumeEvaluate(c) ==
    /\ c.k = "eval"
    /\ LET r == EvaluateTaskReadiness(c.task, DepsOf(pending_tasks, c.task, c.deps),
                                      task_queue, completed_tasks,
                                      waiting_for_dependencies, waiting_keys)
       IN /\ task_queue' = r.queue
          /\ Count(r.added)
          /\ NotifyEvaluated(r, c.task.id)
          /\ waiting_for_dependencies' = r.w
          /\ waiting_keys' = r.wk
          /\ suspended' = IF r.queued THEN (suspended (-) One(c)) (+) One(ProcC)
                          ELSE suspended (-) One(c)
    /\ UNCHANGED <<pending_tasks, completed_tasks, in_progress_tasks,
                   is_processing_active, is_plan_complete, plan_context,
                   created, running, submitted, calls,
                   paused_queue, priority, reordered, shutdown>>

\* a handler resumes into _process_ready_tasks (src/dummy.py 119, 165, 325)
ResumeProcess(c) ==
    /\ c.k = "proc"
    /\ LET r == ProcessReadyTasks(task_queue, in_progress_tasks, is_processing_active)
       IN /\ task_queue' = r.queue
          /\ created' = created \o r.created
    /\ suspended' = suspended (-) One(c)
    /\ UNCHANGED <<pending_tasks, completed_tasks, in_progress_tasks,
                   waiting_for_dependencies, waiting_keys, is_processing_active,
                   is_plan_complete, plan_context, running, submitted, calls,
                   enqueued, paused_queue, priority, reordered, shutdown, notified>>

\* _check_unblocked_tasks resumes after "task_unblocked" (src/dummy.py 268-288);
\* a RuntimeError of the loop is caught by the execution wrapper (203-205)
ResumeUnblock(c) ==
    /\ c.k = "unblock"
    /\ LET r == CheckUnblockedTasks(c.cid, c.pos, c.n, c.unb, c.src, task_queue,
                                    waiting_for_dependencies, waiting_keys,
                                    pending_tasks)
       IN /\ task_queue' = r.queue
          /\ Count(r.added)
          /\ NotifyQueued(r.added)
          /\ waiting_for_dependencies' = r.w
          /\ suspended' = (suspended (-) One(c)) (+) r.conts
          /\ in_progress_tasks' = IF r.error /\ c.src = "exec"
                                  THEN in_progress_tasks \ {c.cid}
                                  ELSE in_progress_tasks
    /\ UNCHANGED <<pending_tasks, completed_tasks, waiting_keys,
                   is_processing_active, is_plan_complete, plan_context,
                   created, running, submitted, calls,
                   paused_queue, priority, reordered, shutdown>>

\* _add_to_execution_queue of an unblocked task resumes after "task_queued":
\* _process_ready_tasks, then the next unblocked task (src/dummy.py 165, 287-288)
ResumeAddUnblocked(c) ==
    /\ c.k = "addq"
    /\ LET p == ProcessReadyTasks(task_queue, in_progress_tasks, is_processing_active)
           r == AfterLoop(c.cid, c.unb, c.src, p.queue, waiting_for_dependencies)
       IN /\ task_queue' = r.queue
          /\ Count(r.added)
          /\ NotifyQueued(r.added)
          /\ created' = created \o p.created
          /\ suspended' = (suspended (-) One(c)) (+) r.conts
    /\ UNCHANGED <<pending_tasks, completed_tasks, in_progress_tasks,
                   waiting_for_dependencies, waiting_keys, is_processing_active,
                   is_plan_complete, plan_context, running, submitted, calls,
                   paused_queue, priority, reordered, shutdown>>

(***************************************************************************)
(* Executions: _execute_task_with_coordination and execute_task.           *)
(***************************************************************************)
\* the event loop starts the oldest created execution (src/dummy.py 182-194,
\* 216-219, 524-534): the in-flight guard, then execute_task up to its await
StartExecution ==
    /\ created # <<>>
    /\ created' = Tail(created)
    /\ IF Head(created).id \in in_progress_tasks
       THEN UNCHANGED <<in_progress_tasks, pending_tasks, running, notified>>
       ELSE /\ in_progress_tasks' = in_progress_tasks \cup {Head(created).id}
            /\ pending_tasks' = WriteStatus(pending_tasks, Head(created),
                                            plan_context, "IN_PROGRESS")
            /\ running' = running (+) One(Exec(Head(created), plan_context, "running"))
            /\ notified' = Notify(notified, {Head(created).id}, "IN_PROGRESS")
    /\ UNCHANGED <<completed_tasks, task_queue, waiting_for_dependencies,
                   waiting_keys, is_processing_active, is_plan_complete,
                   plan_context, suspended, submitted, calls,
                   enqueued, paused_queue, priority, reordered, shutdown>>

\* the streaming callback sends one chunk of the generated text to the sink
\* (src/dummy.py 457-466, 477-484)
ExecutionStreams(e) ==
    /\ e.pc = "running"
    /\ notified' = Notify(notified, {e.task.id}, "dev_agent_llm_streaming_chunk")
    /\ UNCHANGED <<pending_tasks, completed_tasks, in_progress_tasks, task_queue,
                   waiting_for_dependencies, waiting_keys, is_processing_active,
                   is_plan_complete, plan_context, created, running, suspended,
                   submitted, calls, enqueued, paused_queue, priority, reordered,
                   shutdown>>

\* execute_task reaches task.status = COMPLETED (src/dummy.py 604-616)
ExecutionSucceeds(e) ==
    /\ e.pc \in {"running", "degraded"}
    /\ pending_tasks' = WriteStatus(pending_tasks, e.task, e.copy, "COMPLETED")
    /\ running' = (running (-) One(e))
                  (+) One([e EXCEPT !.pc = "COMPLETED",
                                    !.artifact = IF e.pc = "degraded" THEN @ ELSE "text"])
    /\ notified' = Notify(notified, {e.task.id}, "COMPLETED")
    /\ UNCHANGED <<completed_tasks, in_progress_tasks, task_queue,
                   waiting_for_dependencies, waiting_keys, is_processing_active,
                   is_plan_complete, plan_context, created, suspended,
                   submitted, calls,
                   enqueued, paused_queue, priority, reordered, shutdown>>

\* execute_task catches a generation or content error (src/dummy.py 620-645)
ExecutionFails(e) ==
    /\ e.pc = "running"
    /\ pending_tasks' = WriteStatus(pending_tasks, e.task, e.copy, "FAILED")
    /\ running' = (running (-) One(e)) (+) One([e EXCEPT !.pc = "FAILED"])
    /\ notified' = Notify(notified, {e.task.id}, "FAILED")
    /\ UNCHANGED <<completed_tasks, in_progress_tasks, task_queue,
                   waiting_for_dependencies, waiting_keys, is_processing_active,
                   is_plan_complete, plan_context, created, suspended,
                   submitted, calls,
                   enqueued, paused_queue, priority, reordered, shutdown>>

\* writing implementation.py raises, the text generated being non-empty; the
\* handler writes the error-annotated text to the same file and sends "error"
\* to the sink (src/dummy.py 549-572)
PrimaryWriteFails(e) ==
    /\ e.pc = "running"
    /\ running' = (running (-) One(e))
                  (+) One([e EXCEPT !.pc = "degraded", !.persist = "failed",
                                    !.artifact = "error"])
    /\ UNCHANGED <<pending_tasks, completed_tasks, in_progress_tasks, task_queue,
                   waiting_for_dependencies, waiting_keys, is_processing_active,
                   is_plan_complete, plan_context, created, suspended,
                   submitted, calls, enqueued, paused_queue, priority, reordered,
                   shutdown, notified>>

\* writing implementation.py raises, and so does the write of the
\* error-annotated text to the same file (src/dummy.py 565): the exception
\* leaves the inner handler and is caught at line 633
FallbackWriteFails(e) ==
    /\ e.pc = "running"
    /\ pending_tasks' = WriteStatus(pending_tasks, e.task, e.copy, "FAILED")
    /\ running' = (running (-) One(e))
                  (+) One([e EXCEPT !.pc = "FAILED", !.persist = "failed"])
    /\ notified' = Notify(notified, {e.task.id}, "FAILED")
    /\ UNCHANGED <<completed_tasks, in_progress_tasks, task_queue,
                   waiting_for_dependencies, waiting_keys, is_processing_active,
                   is_plan_complete, plan_context, created, suspended,
                   submitted, calls, enqueued, paused_queue, priority, reordered,
                   shutdown>>

\* the stream ends with an empty or blank text: execute_task writes it to
\* implementation.py and sends "file_generated" (src/dummy.py 545-561)
EmptyContentPersisted(e) ==
    /\ e.pc = "running"
    /\ running' = (running (-) One(e))
                  (+) One([e EXCEPT !.pc = "persisted", !.artifact = "empty"])
    /\ notified' = Notify(notified, {e.task.id}, "file_generated")
    /\ UNCHANGED <<pending_tasks, completed_tasks, in_progress_tasks, task_queue,
                   waiting_for_dependencies, waiting_keys, is_processing_active,
                   is_plan_complete, plan_context, created, suspended,
                   submitted, calls, enqueued, paused_queue, priority, reordered,
                   shutdown>>

\* the content check after the write raises ValueError, caught at line 620
\* (src/dummy.py 574-575, 620-632)
EmptyContentFails(e) ==
    /\ e.pc = "persisted"
    /\ pending_tasks' = WriteStatus(pending_tasks, e.task, e.copy, "FAILED")
    /\ running' = (running (-) One(e)) (+) One([e EXCEPT !.pc = "FAILED"])
    /\ notified' = Notify(notified, {e.task.id}, "FAILED")
    /\ UNCHANGED <<completed_tasks, in_progress_tasks, task_queue,
                   waiting_for_dependencies, waiting_keys, is_processing_active,
                   is_plan_complete, plan_context, created, suspended,
                   submitted, calls, enqueued, paused_queue, priority, reordered,
                   shutdown>>

\* execute_task raises before its try block, e.g. from clear_task_output or
\* mkdir (src/dummy.py 540-541); the wrapper's handler runs (203-205)
ExecutionRaises(e) ==
    /\ e.pc = "running"
    /\ in_progress_tasks' = in_progress_tasks \ {e.task.id}
    /\ running' = running (-) One(e)
    /\ UNCHANGED <<pending_tasks, completed_tasks, task_queue,
                   waiting_for_dependencies, waiting_keys, is_processing_active,
                   is_plan_complete, plan_context, created, suspended,
                   submitted, calls,
                   enqueued, paused_queue, priority, reordered, shutdown, notified>>

\* execute_task returns to the wrapper (src/dummy.py 194-201)
ExecutionReturns(e) ==
    /\ e.pc \in {"COMPLETED", "FAILED"}
    /\ LET r == CheckUnblockedTasks(e.task.id, 1, Len(waiting_keys), <<>>, "exec",
                                    task_queue, waiting_for_dependencies,
                                    waiting_keys, pending_tasks)
       IN /\ completed_tasks' = completed_tasks \cup {e.task.id}
          /\ in_progress_tasks' = in_progress_tasks \ {e.task.id}
          /\ task_queue' = r.queue
          /\ Count(r.added)
          /\ NotifyQueued(r.added)
          /\ waiting_for_dependencies' = r.w
          /\ suspended' = suspended (+) r.conts
    /\ running' = running (-) One(e)
    /\ UNCHANGED <<pending_tasks, waiting_keys, is_processing_active,
                   is_plan_complete, plan_context, created, submitted, calls,
                   paused_queue, priority, reordered, shutdown>>

(***************************************************************************)
(* The system.                                                             *)
(***************************************************************************)
Resumption ==
    \E c \in BagToSet(suspended) :
        \/ ResumeEvaluate(c)
        \/ ResumeProcess(c)
        \/ ResumeUnblock(c)
        \/ ResumeAddUnblocked(c)

Execution ==
    \/ StartExecution
    \/ \E e \in BagToSet(running) :
        \/ ExecutionSucceeds(e)
        \/ ExecutionFails(e)
        \/ ExecutionRaises(e)
        \/ ExecutionReturns(e)

Operator ==
    \/ HandlePlanStart
    \/ HandlePlanComplete
    \/ PauseProcessing
    \/ ResumeProcessing
    \/ HandleEmergencyStop
    \/ Shutdown
    \/ \E id \in Ids : ReturnsNotFound(id)
    \/ \E id \in Ids : ForceCompleteTask(id)
    \/ \E id \in Ids : ResetTaskStatus(id)
    \/ \E id \in Ids, deps \in DepChoices : HandleTaskFromPm(id, deps)
    \/ \E id \in Ids, deps \in DepChoices : HandleTaskUpdate(id, deps)
    \/ \E id \in Ids, new_priority \in Priorities :
            HandlePriorityChange(id, new_priority)

\* the sleep of shutdown's poll and its notification return
ShutdownStep == ShutdownPolls \/ ShutdownReturns

Next == Operator \/ Resumption \/ Execution \/ ShutdownStep

Spec == Init /\ [][Next]_vars

(***************************************************************************)
(* The same agent under narrower callers, explored deeper.                 *)
(***************************************************************************)
\* a caller that activates the agent and submits tasks
NextArrivals ==
    \/ ResumeProcessing
    \/ \E id \in Ids, deps \in DepChoices : HandleTaskFromPm(id, deps)
    \/ Resumption
    \/ Execution

SpecArrivals == Construct(MaxArrivalOps) /\ [][NextArrivals]_vars

\* a caller that also force-completes tasks
NextForce ==
    \/ ResumeProcessing
    \/ \E id \in Ids, deps \in DepChoices : HandleTaskFromPm(id, deps)
    \/ \E id \in Ids : ForceCompleteTask(id)
    \/ Resumption
    \/ Execution

SpecForce == Construct(MaxForceOps) /\ [][NextForce]_vars

\* executions whose generation always succeeds
ExecutionOk ==
    \/ StartExecution
    \/ \E e \in BagToSet(running) :
        \/ ExecutionSucceeds(e)
        \/ ExecutionReturns(e)

\* the plan A, C, B(deps = [A, C])
DiamondPlan == [id \in Ids |-> IF id = "B" THEN {"A", "C"} ELSE {}]

\* a caller that submits the tasks of DiamondPlan and resets tasks; every
\* generation succeeds
NextReset ==
    \/ ResumeProcessing
    \/ \E id \in Ids : HandleTaskFromPm(id, DiamondPlan[id])
    \/ \E id \in Ids : ResetTaskStatus(id)
    \/ Resumption
    \/ ExecutionOk

SpecReset == Construct(MaxResetOps) /\ [][NextReset]_vars

\* a caller that submits independent tasks, pauses and resumes
NextPause ==
    \/ ResumeProcessing
    \/ PauseProcessing
    \/ \E id \in Ids : HandleTaskFromPm(id, {})
    \/ Resumption
    \/ Execution

SpecPause == Construct(MaxPauseOps) /\ [][NextPause]_vars

\* a caller that submits independent tasks, resumes and stops
NextStop ==
    \/ ResumeProcessing
    \/ HandleEmergencyStop
    \/ \E id \in Ids : HandleTaskFromPm(id, {})
    \/ Resumption
    \/ Execution

SpecStop == Construct(MaxStopOps) /\ [][NextStop]_vars

\* a caller that submits independent tasks of any agent_type and resumes
NextTags ==
    \/ ResumeProcessing
    \/ \E id \in Ids, agent_type \in AgentTypes :
            SubmitTask(id, {}, agent_type, DefaultPriority)
    \/ Resumption
    \/ Execution

SpecTags == Construct(MaxTagOps) /\ [][NextTags]_vars

\* a caller that submits independent tasks of any priority to the agent (not
\* yet active, so that they queue up) and changes priorities
NextPriority ==
    \/ \E id \in Ids, prio \in Priorities : SubmitTask(id, {}, "dev_agent", prio)
    \/ \E id \in Ids, new_priority \in Priorities :
            HandlePriorityChange(id, new_priority)
    \/ Resumption

SpecPriority == Construct(MaxPriorityOps) /\ [][NextPriority]_vars

\* a caller that submits independent tasks, resumes and shuts the agent down;
\* the sleep of the poll and the sink always return, an execution need not
NextShutdown ==
    \/ ResumeProcessing
    \/ \E id \in Ids : HandleTaskFromPm(id, {})
    \/ Shutdown
    \/ ShutdownPolls
    \/ ShutdownReturns
    \/ Resumption
    \/ Execution

SpecShutdown ==
    /\ Construct(MaxShutdownOps)
    /\ [][NextShutdown]_vars
    /\ WF_vars(ShutdownPolls)
    /\ WF_vars(ShutdownReturns)

\* a caller that activates the agent and submits tasks, with the chunks of
\* the generated text sent to the sink
NextSink ==
    \/ ResumeProcessing
    \/ \E id \in Ids, deps \in DepChoices : HandleTaskFromPm(id, deps)
    \/ Resumption
    \/ Execution
    \/ \E e \in BagToSet(running) : ExecutionStreams(e)

SpecSink == Construct(MaxSinkOps) /\ [][NextSink]_vars

\* a caller that activates the agent and submits independent tasks; the
\* generation succeeds, writing implementation.py may fail
NextPersist ==
    \/ ResumeProcessing
    \/ \E id \in Ids : HandleTaskFromPm(id, {})
    \/ Resumption
    \/ ExecutionOk
    \/ \E e \in BagToSet(running) : PrimaryWriteFails(e) \/ FallbackWriteFails(e)

SpecPersist == Construct(MaxPersistOps) /\ [][NextPersist]_vars

\* a caller that submits independent tasks, starts one plan, and uses the
\* operator controls on any id; every generation succeeds
NextNotFound ==
    \/ ResumeProcessing
    \/ ~plan_context /\ HandlePlanStart
    \/ \E id \in Ids : HandleTaskFromPm(id, {})
    \/ \E id \in Ids : ReturnsNotFound(id)
    \/ \E id \in Ids : ResetTaskStatus(id)
    \/ Resumption
    \/ ExecutionOk

SpecNotFound == Construct(MaxNotFoundOps) /\ [][NextNotFound]_vars

\* a caller that awaits each of its calls before making the next: it
\* activates the agent, submits independent tasks and replaces dependencies;
\* every generation succeeds
NextUpdate ==
    \/ suspended = EmptyBag /\ ResumeProcessing
    \/ suspended = EmptyBag /\ \E id \in Ids : HandleTaskFromPm(id, {})
    \/ suspended = EmptyBag /\ \E id \in Ids, deps \in DepChoices :
                                    HandleTaskUpdate(id, deps)
    \/ Resumption
    \/ ExecutionOk

SpecUpdate == Construct(MaxUpdateOps) /\ [][NextUpdate]_vars

\* a caller that activates the agent and submits independent tasks; the
\* generation returns a text, which may be empty
NextContent ==
    \/ ResumeProcessing
    \/ \E id \in Ids : HandleTaskFromPm(id, {})
    \/ Resumption
    \/ ExecutionOk
    \/ \E e \in BagToSet(running) : EmptyContentPersisted(e)
    \/ \E e \in BagToSet(running) : EmptyContentFails(e)

SpecContent == Construct(MaxContentOps) /\ [][NextContent]_vars

\* a caller that submits tasks, replaces the dependencies of a task by
\* another task's id, resets tasks and force-completes tasks, each call made
\* when the event loop has nothing left to run; every generation succeeds
NextRun ==
    \/ suspended = EmptyBag /\ created = <<>> /\ ResumeProcessing
    \/ suspended = EmptyBag /\ created = <<>> /\
           \E id \in Ids : \E deps \in DepChoices \ {{id}} :
               HandleTaskFromPm(id, deps)
    \/ suspended = EmptyBag /\ created = <<>> /\
           \E id \in Ids : ForceCompleteTask(id)
    \/ suspended = EmptyBag /\ created = <<>> /\
           \E id \in Ids : \E deps \in DepChoices \ {{id}} :
               HandleTaskUpdate(id, deps)
    \/ suspended = EmptyBag /\ created = <<>> /\
           \E id \in Ids : ResetTaskStatus(id)
    \/ Resumption
    \/ ExecutionOk

SpecRun == Construct(MaxRunOps) /\ [][NextRun]_vars

\* the plans over Ids in which a task depends on at most MaxDeps tasks that
\* come before it in the order A, B, C: every dependency is a task of the
\* plan and the dependency graph is acyclic
Rank == [id \in Ids |-> IF id = "A" THEN 1 ELSE IF id = "B" THEN 2 ELSE 3]

AcyclicChoices(id) == {d \in DepChoices : \A x \in d : Rank[x] < Rank[id]}

ProgressCalls == Cardinality(Ids) + 1

\* a caller that activates the agent and then submits every task of such a
\* plan once, in any order and at any time; every generation succeeds and
\* returns.  The event loop runs every coroutine that is ready, and the
\* caller makes all its calls.
NextProgress ==
    \/ ~is_processing_active /\ ResumeProcessing
    \/ is_processing_active /\
           \E id \in Ids : \E deps \in AcyclicChoices(id) :
               HandleTaskFromPm(id, deps)
    \/ Resumption
    \/ ExecutionOk

SpecProgress ==
    Construct(ProgressCalls) /\ [][NextProgress]_vars /\ WF_vars(NextProgress)

\* a caller that starts plans and submits independent tasks, each call made
\* when the handlers of the earlier calls have returned; every generation
\* succeeds
NextPlans ==
    \/ suspended = EmptyBag /\ HandlePlanStart
    \/ suspended = EmptyBag /\ plan_context /\
           \E id \in Ids : HandleTaskFromPm(id, {})
    \/ Resumption
    \/ ExecutionOk

SpecPlans == Construct(MaxPlanOps) /\ [][NextPlans]_vars

\* Scenario 1: a plan is started, B(deps = [A]) is submitted, then A; an
\* independent task C and handle_plan_complete may come at any time after the
\* plan has started; every generation succeeds.  The event loop runs every
\* coroutine that is ready, and the caller makes the scenario's calls.
ScenarioCalls == Cardinality(Ids) + MaxSubmit + 1

NextScenario1 ==
    \/ ~plan_context /\ HandlePlanStart
    \/ plan_context /\ submitted["B"] = 0 /\ HandleTaskFromPm("B", {"A"})
    \/ submitted["B"] > 0 /\ submitted["A"] = 0 /\ HandleTaskFromPm("A", {})
    \/ plan_context /\ HandleTaskFromPm("C", {})
    \/ plan_context /\ ~is_plan_complete /\ HandlePlanComplete
    \/ Resumption
    \/ ExecutionOk

SpecScenario1 ==
    Construct(ScenarioCalls) /\ [][NextScenario1]_vars /\ WF_vars(NextScenario1)

(***************************************************************************)
(* Vocabulary of the properties.                                           *)
(***************************************************************************)
\* no coroutine of the agent is ready or suspended: only a new call acts
Quiescent == suspended = EmptyBag /\ created = <<>> /\ running = EmptyBag

\* executions of task id that have entered execute_task and not returned
Executing(id) ==
    BagCardinality([e \in {x \in BagToSet(running) : x.task.id = id} |-> running[e]])

\* task.status of the Task object that execution e runs on
ExecStatus(e) ==
    IF e.pc \in {"running", "degraded", "persisted"} THEN "IN_PROGRESS" ELSE e.pc

\* in this step execution e leaves execute_task (by return or by exception)
Leaves(e) ==
    /\ CopiesIn(e, running') < CopiesIn(e, running)
    /\ BagCardinality(running') < BagCardinality(running)

Waiting(id) == waiting_for_dependencies[id] # {}

Queued(id) == id \in QueueIds(task_queue)

\* task id has been popped for execution and its execution has not started
Created(id) == \E i \in DOMAIN created : created[i].id = id

(***************************************************************************)
(* C1.  Concurrency bound: in every reachable state the number of ids in   *)
(* in_progress_tasks is at most max_concurrent_tasks.                      *)
(***************************************************************************)
ConcurrencyBound == Cardinality(in_progress_tasks) <= max_concurrent_tasks

(***************************************************************************)
(* C2.  Fail-closed dependents: when execute_task has returned FAILED for  *)
(* task A, the wrapper's return step does not add A to completed_tasks and *)
(* runs no completion for A: no waiting set shrinks and nothing is placed  *)
(* in the ready queue by that step.                                        *)
(***************************************************************************)
FailClosedDependents ==
    [][\A e \in BagToSet(running) :
          (e.pc = "FAILED" /\ ExecutionReturns(e)) =>
              /\ e.task.id \in completed_tasks' => e.task.id \in completed_tasks
              /\ waiting_for_dependencies' = waiting_for_dependencies
              /\ task_queue' = task_queue
              /\ suspended' = suspended]_vars

(***************************************************************************)
(* C4.  Mutual exclusion: a task id is in at most one of: waiting with a   *)
(* non-empty outstanding set, the ready queue, the in-flight set, the      *)
(* completed set.                                                          *)
(***************************************************************************)
SchedulerStates(id) ==
    (IF Waiting(id) THEN 1 ELSE 0) + (IF Queued(id) THEN 1 ELSE 0)
    + (IF id \in in_progress_tasks THEN 1 ELSE 0)
    + (IF id \in completed_tasks THEN 1 ELSE 0)

MutualExclusion == \A id \in Ids : SchedulerStates(id) <= 1

(***************************************************************************)
(* C7.  Scenario 1: B(deps = [A]) is submitted before A.  As long as A has *)
(* not completed, B (once arrived) is waiting on a non-empty set, is not   *)
(* in the ready queue and has never been put there; and with successful    *)
(* generation and a fair event loop the agent reaches, and stays in, a     *)
(* state where A and B are both in completed_tasks.                        *)
(***************************************************************************)
Scenario1 ==
    /\ []((pending_tasks["B"].known /\ "A" \notin completed_tasks) =>
            (Waiting("B") /\ ~Queued("B") /\ enqueued["B"] = 0))
    /\ <>[]({"A", "B"} \subseteq completed_tasks)

\* A and B have both completed, B after having been unblocked and enqueued
Scenario1Done ==
    /\ Quiescent
    /\ {"A", "B"} \subseteq completed_tasks
    /\ enqueued["B"] >= 1
    /\ waiting_for_dependencies["B"] = {}

(***************************************************************************)
(* C8.  The executor never runs twice at once on one task id: at most one  *)
(* execution of an id has entered execute_task and not returned.           *)
(***************************************************************************)
NoConcurrentExecution == \A id \in Ids : Executing(id) <= 1

(***************************************************************************)
(* C3.  Readiness invariant: a task is found ready (and placed in the      *)
(* ready queue) if and only if, when its readiness is evaluated, every id  *)
(* of its declared dependencies is in completed_tasks.  Readiness is       *)
(* evaluated by _evaluate_task_readiness (arrival, reset, dependency       *)
(* replacement) and by _check_unblocked_tasks when a waiting set empties.  *)
(***************************************************************************)
\* this step is _evaluate_task_readiness of task id
EvaluatedDirectly(id) ==
    \/ \E c \in BagToSet(suspended) : c.task.id = id /\ ResumeEvaluate(c)
    \/ pending_tasks[id].known /\ ResetTaskStatus(id)
    \/ \E deps \in SUBSET Ids : HandleTaskUpdate(id, deps)

\* this step of _check_unblocked_tasks finds task id unblocked
FoundUnblocked(id) ==
    \E c \in BagToSet(suspended') :
        /\ c.k = "unblock"
        /\ CopiesIn(c, suspended') > CopiesIn(c, suspended)
        /\ c.unb[Len(c.unb)].id = id

DependenciesCompleted(id) == pending_tasks'[id].deps \subseteq completed_tasks'

ReadinessInvariant ==
    [][\A id \in Ids :
          /\ EvaluatedDirectly(id) => (Queued(id)' <=> DependenciesCompleted(id))
          /\ FoundUnblocked(id) => DependenciesCompleted(id)]_vars

(***************************************************************************)
(* C5.  Unblock completeness: a registered task whose dependencies have    *)
(* all completed is enqueued exactly once: never twice, and once the agent *)
(* has nothing left to run, not zero times.  (Checked under SpecArrivals,  *)
(* where nothing but arrival and unblocking enqueues a task.)              *)
(***************************************************************************)
UnblockCompleteness ==
    \A id \in Ids :
        (/\ pending_tasks[id].known
         /\ pending_tasks[id].deps # {}
         /\ pending_tasks[id].deps \subseteq completed_tasks)
        => /\ enqueued[id] <= 1
           /\ Quiescent => enqueued[id] = 1

(***************************************************************************)
(* C6.  Slot refill: when executions finish while processing is active,    *)
(* admission is re-run, so that once the agent has nothing left to run no  *)
(* task is left in the ready queue.  (Checked under SpecArrivals: no pause *)
(* and no other operator control.)                                         *)
(***************************************************************************)
SlotRefill == (Quiescent /\ is_processing_active) => task_queue = <<>>

(***************************************************************************)
(* C9.  Idempotent completion: completing an id that is already in         *)
(* completed_tasks (by force_complete_task or by an execution returning)   *)
(* leaves the completed set and the waiting sets as they are, and unblocks *)
(* and enqueues nothing: no id enters the ready queue and no unblocking    *)
(* notification is started.                                                *)
(***************************************************************************)
Completes(id) ==
    \/ ForceCompleteTask(id)
    \/ \E e \in BagToSet(running) : e.task.id = id /\ ExecutionReturns(e)

CompletionIdempotent ==
    [][\A id \in Ids :
          (id \in completed_tasks /\ Completes(id)) =>
              /\ completed_tasks' = completed_tasks
              /\ waiting_for_dependencies' = waiting_for_dependencies
              /\ QueueIds(task_queue') \subseteq QueueIds(task_queue)
              /\ suspended' = suspended
              /\ enqueued' = enqueued]_vars

(***************************************************************************)
(* C10.  Pause and resume: a task that was in the ready queue when         *)
(* pause_processing was called is admitted once resume_processing has      *)
(* made processing active again: when the agent has nothing left to run    *)
(* and processing is active, no such task is still in the queue.           *)
(* (Checked under SpecPause: only resume_processing sets active there.)    *)
(***************************************************************************)
ResumeAdmitsQueued ==
    (Quiescent /\ is_processing_active) => \A id \in paused_queue : ~Queued(id)

(***************************************************************************)
(* C11.  Emergency stop: handle_emergency_stop sets active to false and    *)
(* empties the ready queue, and touches neither the in-flight set nor the  *)
(* executions under way; while active stays false nothing is admitted      *)
(* (popped from the queue), and only resume_processing makes it true       *)
(* again.  (Checked under SpecStop, where no plan is started.)             *)
(***************************************************************************)
EmergencyStop ==
    [][/\ HandleEmergencyStop =>
              /\ ~is_processing_active'
              /\ task_queue' = <<>>
              /\ in_progress_tasks' = in_progress_tasks
              /\ running' = running
              /\ created' = created
       /\ (~is_processing_active /\ ~is_processing_active') =>
              (created' = created \/ created' = Tail(created))
       /\ (~is_processing_active /\ is_processing_active') => ResumeProcessing]_vars

\* task id was placed in the ready queue and taken out of it without having
\* been admitted
Discarded(id) ==
    /\ pending_tasks[id].known /\ pending_tasks[id].status = "PENDING"
    /\ enqueued[id] >= 1
    /\ ~Queued(id) /\ ~Created(id) /\ Executing(id) = 0
    /\ id \notin in_progress_tasks /\ id \notin completed_tasks

\* stopped: G has been discarded from the queue while F is still executing
StoppedWithInFlight ==
    /\ ~is_processing_active
    /\ task_queue = <<>>
    /\ \E f, g \in Ids :
          /\ f \in in_progress_tasks /\ Executing(f) = 1
          /\ Discarded(g)

(***************************************************************************)
(* C12.  Scenario 3: a task whose agent_type is not this executor's tag is *)
(* never placed in the ready queue and never executed by the scheduler.    *)
(***************************************************************************)
UnsupportedNeverAdmitted ==
    \A id \in Ids :
        (pending_tasks[id].known /\ pending_tasks[id].agent_type = "unknown") =>
            /\ enqueued[id] = 0
            /\ ~Queued(id) /\ ~Created(id)
            /\ id \notin in_progress_tasks /\ Executing(id) = 0

(***************************************************************************)
(* C13.  execute_task never raises past its boundary: whenever an          *)
(* execution leaves execute_task it does so by returning the task, and the *)
(* task's status is then terminal, COMPLETED or FAILED.                    *)
(***************************************************************************)
ExecuteTaskTerminal ==
    [][\A e \in BagToSet(running) :
          Leaves(e) => /\ ExecutionReturns(e)
                       /\ ExecStatus(e) \in {"COMPLETED", "FAILED"}]_vars

(***************************************************************************)
(* C14.  No silent failures: a task whose execution has failed has status  *)
(* FAILED; so a registered task whose status is IN_PROGRESS has an         *)
(* execution under way.  (Checked under SpecArrivals, where no plan is     *)
(* started and execute_task writes the status of the registered Task.)     *)
(***************************************************************************)
NoSilentFailure ==
    \A id \in Ids :
        (pending_tasks[id].known /\ pending_tasks[id].status = "IN_PROGRESS")
            => Executing(id) >= 1

(***************************************************************************)
(* C15.  The completed set between two plan starts.  As the claim states   *)
(* it: no step other than handle_plan_start removes an id from             *)
(* completed_tasks.                                                        *)
(***************************************************************************)
CompletedMonotonic ==
    [][~(completed_tasks \subseteq completed_tasks') => HandlePlanStart]_vars

(***************************************************************************)
(* C15, as the code has it: an id leaves completed_tasks only in           *)
(* handle_plan_start, which clears the set, or in reset_task_status(id),   *)
(* which removes that one id and no other.                                 *)
(***************************************************************************)
CompletedShrinksOnlyByReset ==
    [][~(completed_tasks \subseteq completed_tasks') =>
          \/ HandlePlanStart
          \/ \E id \in Ids : /\ ResetTaskStatus(id)
                              /\ completed_tasks' = completed_tasks \ {id}]_vars

\* a task that has completed and has been reset: its status still says
\* COMPLETED, it is not in completed_tasks and it is queued again
CompletedThenReset ==
    \E id \in Ids :
        /\ pending_tasks[id].known /\ pending_tasks[id].status = "COMPLETED"
        /\ id \notin completed_tasks
        /\ Executing(id) = 0 /\ Queued(id) /\ enqueued[id] = 2

(***************************************************************************)
(* C16.  A task that declares a dependency on an id the scheduler does not *)
(* know is stored and waits: as long as that id is unknown (so has never   *)
(* been marked completed) the task is waiting on it and has never been     *)
(* enqueued or executed.  The task is the only Task object submitted under *)
(* its id: handle_task_from_pm called again with the same id replaces the  *)
(* registered object, and the wait set, keyed by id, is then written by    *)
(* the evaluations of both objects.  (Checked under SpecForce, where       *)
(* completed_tasks only grows.)                                            *)
(***************************************************************************)
UnknownDependency(id) ==
    /\ pending_tasks[id].known
    /\ submitted[id] = 1
    /\ \E d \in pending_tasks[id].deps : ~pending_tasks[d].known

SelfDependencyBlocked ==
    \A id \in Ids :
        (pending_tasks[id].known /\ id \in pending_tasks[id].deps) =>
            /\ enqueued[id] = 0 /\ ~Queued(id) /\ ~Created(id)
            /\ id \notin in_progress_tasks /\ Executing(id) = 0

(***************************************************************************)
(* C18.  force_complete_task(T) on a known task T: after the call's first  *)
(* step T's status is COMPLETED, T is in completed_tasks and T is in       *)
(* neither the ready queue nor the in-flight set.                          *)
(***************************************************************************)
ForceCompleteCompletes ==
    [][\A id \in Ids :
          ForceCompleteTask(id) =>
              /\ pending_tasks'[id].status = "COMPLETED"
              /\ id \in completed_tasks'
              /\ ~Queued(id)' /\ id \notin in_progress_tasks']_vars

(***************************************************************************)
(* C19.  reset_task_status(T) on a known task T whose status is COMPLETED, *)
(* IN_PROGRESS or FAILED: after the call's first step T's status is        *)
(* PENDING, T is in neither completed_tasks nor in_progress_tasks, and T   *)
(* is in the ready queue if all its dependencies are completed and is      *)
(* waiting on exactly its uncompleted dependencies otherwise.              *)
(***************************************************************************)
ResetReturnsToPending ==
    [][\A id \in Ids :
          (/\ pending_tasks[id].known
           /\ pending_tasks[id].status \in {"COMPLETED", "IN_PROGRESS", "FAILED"}
           /\ ResetTaskStatus(id)) =>
              /\ pending_tasks'[id].status = "PENDING"
              /\ id \notin completed_tasks' /\ id \notin in_progress_tasks'
              /\ IF pending_tasks[id].deps \subseteq completed_tasks'
                 THEN Queued(id)'
                 ELSE /\ ~Queued(id)'
                      /\ waiting_for_dependencies'[id] =
                             pending_tasks[id].deps \ completed_tasks']_vars

(***************************************************************************)
(* C20.  Priority change of a queued task.  The queue is sorted when the   *)
(* priorities of its tasks, front to back, never increase.                 *)
(***************************************************************************)
Sorted(queue, prio) ==
    \A i, j \in DOMAIN queue :
        i < j => PriorityOf(prio, queue[i]) >= PriorityOf(prio, queue[j])

\* the place of `task` in `queue` is immediately before the first task of
\* strictly lower priority, or the end if there is none
PlacedBeforeLower(queue, task, prio) ==
    \E k \in DOMAIN queue :
        /\ queue[k] = task
        /\ \A j \in 1 .. (k - 1) :
              PriorityOf(prio, queue[j]) >= PriorityOf(prio, task)
        /\ k < Len(queue) =>
              PriorityOf(prio, queue[k + 1]) < PriorityOf(prio, task)

\* this step is handle_priority_change on task id, whose Task object is in
\* the queue
ChangesQueued(id) ==
    /\ pending_tasks[id].known
    /\ \E i \in DOMAIN task_queue : task_queue[i] = StoredRef(pending_tasks, id)
    /\ \E new_priority \in Priorities : HandlePriorityChange(id, new_priority)

(***************************************************************************)
(* C20, as the claim states it: after handle_priority_change on a queued   *)
(* task the ready queue is sorted descending by priority.                  *)
(***************************************************************************)
PriorityChangeSorts ==
    [][\A id \in Ids :
          ChangesQueued(id) => Sorted(task_queue', priority')]_vars

(***************************************************************************)
(* C20, as the code has it: handle_priority_change on a queued task T      *)
(* stores the new priority, takes T out and puts it back immediately       *)
(* before the first queued task of strictly lower priority (at the end if  *)
(* there is none); the other queued tasks keep their relative order; and   *)
(* the queue is sorted descending afterwards if the other queued tasks     *)
(* were sorted descending.                                                 *)
(***************************************************************************)
PriorityChangeReinserts ==
    [][\A id \in Ids :
          ChangesQueued(id) =>
              LET task == StoredRef(pending_tasks, id)
                  others == RemoveFirst(task_queue, task)
              IN /\ PlacedBeforeLower(task_queue', task, priority')
                 /\ RemoveFirst(task_queue', task) = others
                 /\ Len(task_queue') = Len(task_queue)
                 /\ Sorted(others, priority) => Sorted(task_queue', priority')]_vars

\* a queue of three tasks of different priorities, sorted, whose front task
\* was put there by a priority change
ReorderedToFront ==
    /\ Len(task_queue) = 3
    /\ Sorted(task_queue, priority)
    /\ PriorityOf(priority, task_queue[1]) > PriorityOf(priority, task_queue[2])
    /\ PriorityOf(priority, task_queue[2]) > PriorityOf(priority, task_queue[3])
    /\ task_queue[1].id \in reordered

(***************************************************************************)
(* C21.  Priority affects only the order of the queue: a step of           *)
(* handle_priority_change leaves unchanged the set of ids in the ready     *)
(* queue (and its length), every waiting set, completed_tasks,             *)
(* in_progress_tasks and the active flag; it enqueues nothing, admits      *)
(* nothing (no execution is created) and starts no admission loop.         *)
(***************************************************************************)
PriorityOnlyOrders ==
    [][\A id \in Ids, new_priority \in Priorities :
          HandlePriorityChange(id, new_priority) =>
              /\ QueueIds(task_queue') = QueueIds(task_queue)
              /\ Len(task_queue') = Len(task_queue)
              /\ waiting_for_dependencies' = waiting_for_dependencies
              /\ completed_tasks' = completed_tasks
              /\ in_progress_tasks' = in_progress_tasks
              /\ is_processing_active' = is_processing_active
              /\ enqueued' = enqueued
              /\ created' = created
              /\ suspended' = suspended]_vars

\* the priority of a waiting task has been changed, and the task is still
\* waiting and has never been enqueued
PriorityChangedWhileWaiting ==
    \E id \in Ids :
        /\ pending_tasks[id].known
        /\ PriorityOf(priority, StoredRef(pending_tasks, id)) # DefaultPriority
        /\ Waiting(id) /\ ~Queued(id) /\ enqueued[id] = 0
        /\ suspended = EmptyBag

(***************************************************************************)
(* C22.  handle_task_update(T, {dependencies: deps}) on a pending task T   *)
(* (registered, not completed, not in flight, not popped for execution):   *)
(* after the call's first step T's declared dependencies are deps, the     *)
(* waiting set of T is exactly the ids of deps that are not in             *)
(* completed_tasks, and T is in the ready queue if and only if that set is *)
(* empty.                                                                  *)
(***************************************************************************)
\* task id is registered and is neither completed nor in flight
PendingTask(id) ==
    /\ pending_tasks[id].known
    /\ id \notin completed_tasks /\ id \notin in_progress_tasks
    /\ ~Created(id) /\ Executing(id) = 0

UpdateReplacesDependencies ==
    [][\A id \in Ids, deps \in DepChoices :
          (PendingTask(id) /\ HandleTaskUpdate(id, deps)) =>
              /\ pending_tasks'[id].deps = deps
              /\ waiting_for_dependencies'[id] = deps \ completed_tasks'
              /\ Queued(id)' <=> (deps \ completed_tasks' = {})]_vars

(***************************************************************************)
(* C23.  When the execution wrapper catches an exception raised by         *)
(* execute_task for task T, the step of its handler leaves T's status      *)
(* FAILED, takes T out of in_progress_tasks, adds nothing to               *)
(* completed_tasks, and leaves the other executions as they are.  (Checked *)
(* under SpecArrivals, where no plan is started and the executed Task is   *)
(* the registered one.)                                                    *)
(***************************************************************************)
WrapperForcesFailed ==
    [][\A e \in BagToSet(running) :
          ExecutionRaises(e) =>
              /\ pending_tasks'[e.task.id].status = "FAILED"
              /\ e.task.id \notin in_progress_tasks'
              /\ completed_tasks' = completed_tasks
              /\ running' = running (-) One(e)
              /\ created' = created]_vars

(***************************************************************************)
(* C24.  shutdown() sets active to false, and while active stays false     *)
(* nothing is admitted (popped from the ready queue).  It always           *)
(* terminates: the poll goes on only while in_progress_tasks is non-empty  *)
(* and less than `timeout` seconds have been waited, it ends as soon as    *)
(* the set is found empty or the wait has reached `timeout`, and shutdown  *)
(* then returns, whether or not the executions in flight ever return.      *)
(* (The sleep of the poll and the sink are assumed to return.)             *)
(***************************************************************************)
ShutdownTerminates ==
    /\ [][Shutdown => ~is_processing_active']_vars
    /\ [][(shutdown.pc # "none" /\ ~is_processing_active /\ ~is_processing_active')
              => (created' = created \/ created' = Tail(created))]_vars
    /\ [][(ShutdownPolls /\ shutdown'.pc = "polling") =>
              (in_progress_tasks # {} /\ shutdown'.waited < timeout)]_vars
    /\ [][(ShutdownPolls /\ shutdown'.pc = "notifying") =>
              (in_progress_tasks = {} \/ shutdown'.waited >= timeout)]_vars
    /\ [](shutdown.waited < timeout + MaxSleep)
    /\ (shutdown.pc # "none") ~> (shutdown.pc = "returned")

\* shutdown has returned on its timeout: an execution is still in flight, a
\* task is still in the ready queue, and the agent is not active
ShutdownTimedOut ==
    /\ shutdown.pc = "returned"
    /\ shutdown.waited >= timeout
    /\ ~is_processing_active
    /\ task_queue # <<>>
    /\ \E id \in in_progress_tasks : Executing(id) = 1

(***************************************************************************)
(* C25.  Per-task notification order.  For every task id, each             *)
(* notification about the task follows the previous one in the order       *)
(* task_waiting or task_queued, task_status_update(IN_PROGRESS), streaming *)
(* chunks, terminal task_status_update: nothing precedes task_waiting and  *)
(* task_queued, IN_PROGRESS follows task_queued only, a chunk follows      *)
(* IN_PROGRESS or a chunk, and nothing follows the terminal notification.  *)
(***************************************************************************)
Terminal == {"COMPLETED", "FAILED"}

\* the pairs <<previous, next>> of notifications about one task that are in
\* order
InOrder ==
    ({"none"} \X {"task_waiting", "task_queued"})
    \cup ({"task_waiting"} \X {"task_waiting", "task_queued"})
    \cup ({"task_queued"} \X {"IN_PROGRESS"})
    \cup ({"IN_PROGRESS", "dev_agent_llm_streaming_chunk"}
            \X ({"dev_agent_llm_streaming_chunk"} \cup Terminal))

NotificationOrder ==
    [][\A id \in Ids :
          notified'[id] # notified[id] => <<notified[id], notified'[id]>> \in InOrder]_vars

(***************************************************************************)
(* C26.  A persistence failure alone never fails a task: an execution in   *)
(* which writing implementation.py failed, the generated text being        *)
(* non-empty, ends with status COMPLETED.                                  *)
(***************************************************************************)
PersistenceFailureCompletes ==
    \A e \in BagToSet(running) :
        (e.persist = "failed" /\ ExecStatus(e) \in Terminal) =>
            /\ ExecStatus(e) = "COMPLETED"
            /\ ~e.copy => pending_tasks[e.task.id].status = "COMPLETED"

(***************************************************************************)
(* C27.  Operator controls on an unknown task id: a call of                *)
(* force_complete_task, handle_task_update, handle_priority_change or      *)
(* reset_task_status with an id that is not in pending_tasks returns False *)
(* and leaves the ready queue, in_progress_tasks, completed_tasks and the  *)
(* waiting sets unchanged.                                                 *)
(***************************************************************************)
UnknownIdReported ==
    [][\A id \in Ids :
          (~pending_tasks[id].known /\ (ReturnsNotFound(id) \/ ResetTaskStatus(id))) =>
              /\ ~ResetTaskStatusResult(id)
              /\ task_queue' = task_queue
              /\ in_progress_tasks' = in_progress_tasks
              /\ completed_tasks' = completed_tasks
              /\ waiting_for_dependencies' = waiting_for_dependencies]_vars

(***************************************************************************)
(* C28.  The task stored in pending_tasks carries the outcome of its       *)
(* execution: while the registered Task is executed its stored status is   *)
(* the status execute_task has given it (IN_PROGRESS, then COMPLETED or    *)
(* FAILED), and once its id is in completed_tasks its stored status is     *)
(* COMPLETED.  (Checked under SpecScenario1: a plan context is set, every  *)
(* generation succeeds and no task is force-completed.)                    *)
(***************************************************************************)
StoredTaskCarriesOutcome ==
    \A id \in Ids :
        pending_tasks[id].known =>
            /\ \A e \in BagToSet(running) :
                  e.task = StoredRef(pending_tasks, id) =>
                      pending_tasks[id].status = ExecStatus(e)
            /\ id \in completed_tasks => pending_tasks[id].status = "COMPLETED"

(***************************************************************************)
(* C29.  Registration computes the outstanding set against the completed   *)
(* set: when handle_task_from_pm(T), for a task with declared              *)
(* dependencies, has evaluated T's readiness, the waiting set of T is      *)
(* exactly the declared dependencies that are not in completed_tasks; if   *)
(* that set is empty T is in the ready queue and is not recorded as        *)
(* waiting on anything.                                                    *)
(***************************************************************************)
\* this step is the readiness evaluation that ends handle_task_from_pm of
\* the Task registered under id
Registers(id) ==
    \E c \in BagToSet(suspended) :
        /\ c.task = StoredRef(pending_tasks, id)
        /\ ResumeEvaluate(c)

RegistrationComputesWaiting ==
    [][\A id \in Ids :
          (pending_tasks[id].deps # {} /\ Registers(id)) =>
              /\ waiting_for_dependencies'[id] =
                     pending_tasks[id].deps \ completed_tasks'
              /\ pending_tasks[id].deps \subseteq completed_tasks' =>
                     (Queued(id)' /\ ~Waiting(id)')]_vars

(***************************************************************************)
(* C30.  Idempotent re-enqueue guard: a task is appended to the ready      *)
(* queue only if its id is neither in the queue nor in in_progress_tasks:  *)
(* after a step that appends task T, T's id is in the queue once and is    *)
(* not in in_progress_tasks, so a task in flight is never put in the       *)
(* ready queue.                                                            *)
(***************************************************************************)
\* in this step task id is appended to the ready queue
Appended(id) == enqueued'[id] > enqueued[id]

EnqueueGuard ==
    [][\A id \in Ids :
          Appended(id) =>
              /\ Cardinality({i \in DOMAIN task_queue' : task_queue'[i].id = id}) = 1
              /\ id \notin in_progress_tasks']_vars

(***************************************************************************)
(* C31.  The empty-content check precedes persistence: an execution whose  *)
(* generated text is empty or blank writes no implementation.py, and the   *)
(* last notification about its task is never "file_generated" for an       *)
(* empty text.                                                             *)
(***************************************************************************)
EmptyContentNotPersisted ==
    \A e \in BagToSet(running) :
        /\ e.artifact # "empty"
        /\ e.pc = "persisted" => notified[e.task.id] # "file_generated"

(***************************************************************************)
(* C32.  FIFO admission.  Every step leaves the ready queue as it was      *)
(* except that some tasks are taken from its front and some are added at   *)
(* its back; the tasks taken from the front are handed to the event loop   *)
(* in queue order (those whose id is in flight are dropped); and the event *)
(* loop starts the executions handed to it oldest first.  (Checked under   *)
(* SpecArrivals: no priority change, force-complete, reset or stop.)       *)
(***************************************************************************)
IsPrefix(s, t) == Len(s) <= Len(t) /\ SubSeq(t, 1, Len(s)) = s

FifoAdmission ==
    [][\E k \in 0 .. Len(task_queue) :
          LET popped == SubSeq(task_queue, 1, k)
              rest == SubSeq(task_queue, k + 1, Len(task_queue))
              NotInFlight(t) == t.id \notin in_progress_tasks
          IN /\ IsPrefix(rest, task_queue')
             /\ \/ created' = created \o SelectSeq(popped, NotInFlight)
                \/ k = 0 /\ created # <<>> /\ created' = Tail(created)]_vars

\* three tasks have been taken from the queue in one admission and wait, in
\* the order of the queue, for the event loop to start them
AdmittedInOrder ==
    /\ Len(created) = 3
    /\ task_queue = <<>>
    /\ \A id \in Ids : enqueued[id] = 1
    /\ in_progress_tasks = {}

(***************************************************************************)
(* C33.  No task runs with an unmet dependency: whenever an execution of   *)
(* task T starts, every id in the dependencies that T declares at that     *)
(* moment is in completed_tasks.                                           *)
(***************************************************************************)
RunsWithDependenciesMet ==
    [][\A id \in Ids :
          Executing(id)' > Executing(id) =>
              /\ pending_tasks[id].known
              /\ pending_tasks[id].deps \subseteq completed_tasks]_vars

(***************************************************************************)
(* C34.  A completed task is not run again: while a task id is in          *)
(* completed_tasks, no step other than reset_task_status for that id       *)
(* places the task in the ready queue or starts an execution of it.        *)
(***************************************************************************)
CompletedNotRunAgain ==
    [][\A id \in Ids :
          id \in completed_tasks /\ ~ResetTaskStatus(id) =>
              /\ enqueued'[id] = enqueued[id]
              /\ Executing(id)' <= Executing(id)]_vars

(***************************************************************************)
(* C35.  The number of executions that are running (the execution wrapper  *)
(* has started and has not returned) is at most max_concurrent_tasks.      *)
(***************************************************************************)
RunningBound == BagCardinality(running) <= max_concurrent_tasks

(***************************************************************************)
(* C36.  Progress: when the agent is active, every task of an acyclic plan *)
(* whose dependencies are tasks of the plan is submitted, every generation *)
(* succeeds and no operator control is invoked, every submitted task is    *)
(* eventually in completed_tasks.                                          *)
(***************************************************************************)
Progress == \A id \in Ids : submitted[id] > 0 ~> id \in completed_tasks

(***************************************************************************)
(* C37.  Plan isolation: handle_plan_start empties the pending table, the  *)
(* completed set, the in-flight set, the ready queue and the waiting sets  *)
(* and sets active; and an execution of the previous plan, whose task is   *)
(* not in the pending table of the new plan, never adds its id to          *)
(* in_progress_tasks or completed_tasks and places no task in the queue.   *)
(***************************************************************************)
PlanIsolation ==
    [][/\ HandlePlanStart =>
             /\ \A id \in Ids : ~pending_tasks'[id].known
             /\ completed_tasks' = {} /\ in_progress_tasks' = {}
             /\ task_queue' = <<>>
             /\ \A id \in Ids : waiting_for_dependencies'[id] = {}
             /\ is_processing_active'
       /\ \A id \in Ids :
             ~pending_tasks'[id].known =>
                 /\ id \in completed_tasks' => id \in completed_tasks
                 /\ id \in in_progress_tasks' => id \in in_progress_tasks
                 /\ \A e \in BagToSet(running) :
                       e.task.id = id /\ ExecutionReturns(e) =>
                           task_queue' = task_queue]_vars

\* get_task_statistics (src/dummy.py 801-810)
get_task_statistics ==
    [total_tasks |-> Cardinality({id \in Ids : pending_tasks[id].known}),
     completed_tasks |-> Cardinality(completed_tasks),
     in_progress_tasks |-> Cardinality(in_progress_tasks),
     queued_tasks |-> Len(task_queue),
     waiting_tasks |-> Cardinality({id \in Ids : waiting_for_dependencies[id] # {}}),
     failed_tasks |-> Cardinality({id \in Ids : /\ pending_tasks[id].known
                                                /\ pending_tasks[id].status = "FAILED"})]

\* the last thing the agent has reported about task id is that its execution
\* failed
EndedFailed(id) == pending_tasks[id].known /\ notified[id] = "FAILED"

(***************************************************************************)
(* C38.  get_task_statistics reports failures faithfully: failed_tasks is  *)
(* the number of tasks in the pending table whose most recent execution    *)
(* ended FAILED, and completed_tasks counts no task whose execution ended  *)
(* FAILED.                                                                 *)
(***************************************************************************)
FailuresReported ==
    /\ get_task_statistics.failed_tasks =
           Cardinality({id \in Ids : EndedFailed(id)})
    /\ get_task_statistics.completed_tasks =
           Cardinality({id \in completed_tasks : ~EndedFailed(id)})

(***************************************************************************)
(* C39.  The ready queue never contains two entries with the same task id. *)
(***************************************************************************)
QueueIdsUnique ==
    \A i, j \in DOMAIN task_queue :
        task_queue[i].id = task_queue[j].id => i = j

\* a task that has been placed in the ready queue more than once is in the
\* queue, once
QueuedAgain ==
    \E id \in Ids :
        /\ enqueued[id] >= 2
        /\ Cardinality({i \in DOMAIN task_queue : task_queue[i].id = id}) = 1

====
